---- MODULE Spec2Model ----
(***************************************************************************)
(* ContentForge backend: the DynamoDB gateway (utils/dynamodb.py), the     *)
(* item codec, the project service (services/project_service.py) and the  *)
(* Cognito auth helper (utils/auth.py), as state machines over one table.  *)
(*                                                                         *)
(* Values are tagged tuples so that values of different Python types can   *)
(* be compared:  <<"S", s>> a str, <<"K", kind, x>> the str "KIND#x",      *)
(* <<"D", t>> a datetime, <<"T", t>> its ISO-8601 str, <<"N">> None/NULL.  *)
(***************************************************************************)
EXTENDS Integers, Sequences, FiniteSets, TLC

\* ------------------------------------------------------------ bounds
MaxClock == 1
MaxLimit == 2
MaxPage == 2

\* ------------------------------------------------------------ value universe
Owners == {"u1", "u2"}
Ids == {"p1", "p2"}
Statuses == {"active", "archived", "deleted"}

PyNone == <<"N">>
Str(s) == <<"S", s>>
KeyStr(kind, x) == <<"K", kind, x>>
Dt(t) == <<"D", t>>
Iso(t) == <<"T", t>>

\* A ContentTopic with selected_at = t, and the dict .dict() makes of it (its
\* selected_at left as it is: a datetime, or an ISO string once stored as JSON)
Topic(t) == <<"M", t>>
TopicDict(at) == <<"J", at>>

IsStr(v) == v[1] \in {"S", "K", "T"}
IsNone(v) == v[1] = "N"

\* datetime.isoformat()
isoformat(v) == Iso(v[2])

\* ------------------------------------------------------------ python dicts
\* A dict is a function from a finite set of field names to values.
Has(d, k) == k \in DOMAIN d
Restrict(d, S) == [k \in S |-> d[k]]
Put(d, k, v) == [x \in (DOMAIN d) \cup {k} |-> IF x = k THEN v ELSE d[x]]
EmptyDict == [k \in {} |-> PyNone]

\* ------------------------------------------------------------ models/project.py
BaseFields == {"id", "created_at", "updated_at"}
RoutingFields == {"pk", "sk", "gsi1pk", "gsi1sk"}
RequiredFields == {"user_id", "name", "niche", "target_audience"}
ProjectFields == BaseFields \cup RequiredFields \cup {"topic", "status"} \cup RoutingFields
DatetimeFields == {"created_at", "updated_at"}
OptionalFields == {"topic", "gsi1pk", "gsi1sk"}

\* Field(..., exclude=True) on pk, sk, gsi1pk, gsi1sk: the fields a pydantic
\* build that honours the keyword leaves out of .dict(); a build that predates
\* the keyword (pydantic < 1.9) ignores it.
ExcludedFields(honoured) == IF honoured THEN RoutingFields ELSE {}

\* status: regex ^(active|archived|deleted)$
StatusOk(v) == v[1] = "S" /\ v[2] \in Statuses

\* (variant: updated_at filled before created_at)
NewProjectUpdatedFirst(uid, t1, t2, user, name, niche, audience) ==
    [f \in ProjectFields |->
        CASE f = "id" -> Str(uid)
          [] f = "created_at" -> Dt(t2)
          [] f = "updated_at" -> Dt(t1)
          [] f = "user_id" -> Str(user)
          [] f = "name" -> name
          [] f = "niche" -> niche
          [] f = "target_audience" -> audience
          [] f = "status" -> Str("active")
          [] f = "pk" -> Str("")
          [] f = "sk" -> Str("")
          [] OTHER -> PyNone]

\* Project(user_id=..., name=..., niche=..., target_audience=...): id from uuid4,
\* created_at and updated_at from two separate datetime.utcnow() reads.
NewProject(uid, t1, t2, user, name, niche, audience) ==
    [f \in ProjectFields |->
        CASE f = "id" -> Str(uid)
          [] f = "created_at" -> Dt(t1)
          [] f = "updated_at" -> Dt(t2)
          [] f = "user_id" -> Str(user)
          [] f = "name" -> name
          [] f = "niche" -> niche
          [] f = "target_audience" -> audience
          [] f = "status" -> Str("active")
          [] f = "pk" -> Str("")
          [] f = "sk" -> Str("")
          [] OTHER -> PyNone]

\* ------------------------------------------------------------ utils/dynamodb.py: codec
\* model.dict(exclude_none=True), then every top-level datetime to its ISO string.
\* Only values that are themselves datetimes are converted: a nested model has
\* become a dict, and the datetime inside it stays.
model_to_dynamodb_item(model, honoured) ==
    LET kept == {f \in DOMAIN model : ~IsNone(model[f]) /\ f \notin ExcludedFields(honoured)}
    IN [f \in kept |->
           CASE model[f][1] = "D" -> isoformat(model[f])
             [] model[f][1] = "M" -> TopicDict(Dt(model[f][2]))
             [] OTHER -> model[f]]

\* k.startswith('#')
StartsWithHash(k) == k \in {"#meta"}

\* pydantic's validation of one supplied field of Project
FieldValid(f, v) ==
    CASE f \in DatetimeFields -> v[1] \in {"T", "D"}
      [] f = "status" -> StatusOk(v)
      [] f \in OptionalFields -> TRUE
      [] OTHER -> IsStr(v)

\* Project(**cleaned): does validation pass?
Decodable(item) ==
    LET cleaned == {k \in DOMAIN item : ~StartsWithHash(k)}
    IN /\ RequiredFields \subseteq cleaned
       /\ \A f \in cleaned \cap ProjectFields : FieldValid(f, item[f])

\* The model Project(**cleaned) builds: supplied fields parsed, missing ones
\* defaulted (id and the timestamps from their default factories), extras ignored.
DecodedModel(item, uid, t) ==
    [f \in ProjectFields |->
        IF Has(item, f) /\ ~StartsWithHash(f)
        THEN (CASE f \in DatetimeFields -> Dt(item[f][2])
                [] f = "topic" /\ item[f][1] = "J" -> Topic(item[f][2][2])
                [] OTHER -> item[f])
        ELSE CASE f = "id" -> Str(uid)
               [] f \in DatetimeFields -> Dt(t)
               [] f = "status" -> Str("active")
               [] f \in {"pk", "sk"} -> Str("")
               [] OTHER -> PyNone]

\* dynamodb_item_to_model(item, Project): the model, or pydantic's ValidationError
\* raised to the caller (the function has no try/except).
dynamodb_item_to_model(item, uid, t) ==
    IF Decodable(item)
    THEN [raised |-> FALSE, val |-> DecodedModel(item, uid, t)]
    ELSE [raised |-> TRUE, val |-> EmptyDict]

\* ------------------------------------------------------------ the DynamoDB table
\* The table holds items keyed by (pk, sk); sort keys order as their UTF-8 strings.
PKs == {KeyStr("USER", u) : u \in Owners}
SortKeys == <<KeyStr("PROJECT", "p1"), KeyStr("PROJECT", "p2"), KeyStr("SCRIPT", "s1")>>
SKs == {SortKeys[i] : i \in 1..Len(SortKeys)}
Rank(sk) == CHOOSE i \in 1..Len(SortKeys) : SortKeys[i] = sk

\* How a backend call ends: normally, with botocore's ClientError, or with any
\* other exception (EndpointConnectionError, ParamValidationError, TypeError ...).
BackendOutcomes == {"ok", "client_error", "other_error"}

\* The table's key schema: both key attributes present, non-empty strings.
HasKey(item) ==
    /\ Has(item, "pk") /\ Has(item, "sk")
    /\ IsStr(item["pk"]) /\ IsStr(item["sk"])
    /\ item["pk"] # Str("") /\ item["sk"] # Str("")

\* boto3's TypeSerializer accepts str, None, ...; a datetime raises TypeError.
Serializable(d) ==
    \A k \in DOMAIN d : d[k][1] # "D" /\ ~(d[k][1] = "J" /\ d[k][2][1] = "D")

At(tbl, pk, sk) == {it \in tbl : it["pk"] = pk /\ it["sk"] = sk}
Without(tbl, pk, sk) == tbl \ At(tbl, pk, sk)

\* ------------------------------------------------------------ utils/dynamodb.py: gateway
\* Each operation returns [raised, val, tbl]: whether an exception left the
\* method, the value it returned otherwise, and the table afterwards.

\* put_item: table.put_item(Item=item); except ClientError -> False.
put_item(tbl, item, be) ==
    IF be = "other_error" \/ ~Serializable(item)
    THEN [raised |-> TRUE, val |-> FALSE, tbl |-> tbl]
    ELSE IF be = "client_error" \/ ~HasKey(item)
    THEN [raised |-> FALSE, val |-> FALSE, tbl |-> tbl]
    ELSE [raised |-> FALSE, val |-> TRUE,
          tbl |-> Without(tbl, item["pk"], item["sk"]) \cup {item}]

\* get_item: response.get('Item'); except ClientError -> None.
\* val is the set holding the item, empty for None.
get_item(tbl, pk, sk, be) ==
    IF be = "other_error"
    THEN [raised |-> TRUE, val |-> {}, tbl |-> tbl]
    ELSE IF be = "client_error"
    THEN [raised |-> FALSE, val |-> {}, tbl |-> tbl]
    ELSE [raised |-> FALSE, val |-> At(tbl, pk, sk), tbl |-> tbl]

\* Pagination cursors: json.dumps(LastEvaluatedKey) and json.loads(next_token).
NoToken == [kind |-> "none"]
BadToken == [kind |-> "bad"]
json_dumps_key(pk, sk) == [kind |-> "json", pk |-> pk, sk |-> sk]
Tokens == {NoToken, BadToken} \cup {json_dumps_key(pk, sk) : pk \in PKs, sk \in SKs}

\* begins_with(sk, prefix); prefix is the kind before '#', "" for none.
begins_with(sk, prefix) == sk[1] = "K" /\ sk[2] = prefix

Matching(tbl, pk, prefix) ==
    {it \in tbl : it["pk"] = pk /\ (prefix = "" \/ begins_with(it["sk"], prefix))}

RECURSIVE InOrder(_)
InOrder(S) ==
    IF S = {} THEN <<>>
    ELSE LET m == CHOOSE x \in S : \A y \in S : Rank(x["sk"]) <= Rank(y["sk"])
         IN <<m>> \o InOrder(S \ {m})

\* The backend's Query: the matching items after ExclusiveStartKey, in sort-key
\* order, cut at Limit and at the backend's own page size (cap items here);
\* LastEvaluatedKey is returned when the page stopped at Limit or before the end.
BackendQuery(tbl, pk, prefix, limit, start, cap) ==
    LET all == InOrder(Matching(tbl, pk, prefix))
        rest == SelectSeq(all, LAMBDA it : start.kind = "none" \/ Rank(it["sk"]) > Rank(start.sk))
        lim == IF limit > 0 /\ limit < cap THEN limit ELSE cap
        n == IF Len(rest) < lim THEN Len(rest) ELSE lim
        page == SubSeq(rest, 1, n)
        more == n > 0 /\ (n < Len(rest) \/ (limit > 0 /\ n = limit))
    IN [Items |-> page, HasLEK |-> more,
        LEK |-> IF more THEN <<page[n]["pk"], page[n]["sk"]>> ELSE <<>>]

\* The backend rejects a start key of another partition or outside the prefix.
StartKeyOk(pk, prefix, start) ==
    start.kind = "none" \/ (start.pk = pk /\ (prefix = "" \/ begins_with(start.sk, prefix)))

EmptyPage == [items |-> <<>>, next_token |-> NoToken]

\* (variant: the cursor derived from the page being full, not from LastEvaluatedKey)
query_items_by_fullness(tbl, pk, prefix, limit, next_token, be, cap) ==
    IF next_token.kind = "bad" \/ be = "other_error"
    THEN [raised |-> TRUE, val |-> EmptyPage, tbl |-> tbl]
    ELSE IF be = "client_error" \/ ~StartKeyOk(pk, prefix, next_token)
    THEN [raised |-> FALSE, val |-> EmptyPage, tbl |-> tbl]
    ELSE LET response == BackendQuery(tbl, pk, prefix, limit, next_token, cap)
             n == Len(response.Items)
         IN [raised |-> FALSE,
             val |-> [items |-> response.Items,
                      next_token |-> IF n > 0 /\ n = limit
                                     THEN json_dumps_key(response.Items[n]["pk"],
                                                         response.Items[n]["sk"])
                                     ELSE NoToken],
             tbl |-> tbl]

\* query_items: val is [items, next_token].
query_items(tbl, pk, prefix, limit, next_token, be, cap) ==
    IF next_token.kind = "bad" \/ be = "other_error"
    THEN [raised |-> TRUE, val |-> EmptyPage, tbl |-> tbl]
    ELSE IF be = "client_error" \/ ~StartKeyOk(pk, prefix, next_token)
    THEN [raised |-> FALSE, val |-> EmptyPage, tbl |-> tbl]
    ELSE LET response == BackendQuery(tbl, pk, prefix, limit, next_token, cap)
         IN [raised |-> FALSE,
             val |-> [items |-> response.Items,
                      next_token |-> IF response.HasLEK
                                     THEN json_dumps_key(response.LEK[1], response.LEK[2])
                                     ELSE NoToken],
             tbl |-> tbl]

\* An update expression after "SET ": a sequence of <<"=", name, value>>
\* assignments and <<",">> separators, over placeholder names and values.
Assign(n, v) == <<"=", n, v>>
Comma == <<",">>
WellFormed(expr, values, names) ==
    /\ Len(expr) % 2 = 1
    /\ \A i \in 1..Len(expr) :
          IF i % 2 = 1
          THEN expr[i][1] = "=" /\ Has(names, expr[i][2]) /\ Has(values, expr[i][3])
          ELSE expr[i] = Comma
    /\ \A i, j \in 1..Len(expr) :
          (i % 2 = 1 /\ j % 2 = 1 /\ i # j) => names[expr[i][2]] # names[expr[j][2]]
    /\ \A i \in 1..Len(expr) : i % 2 = 1 => names[expr[i][2]] \notin {"pk", "sk"}

RECURSIVE ApplySet(_, _, _, _)
ApplySet(item, expr, values, names) ==
    IF expr = <<>> THEN item
    ELSE LET a == Head(expr)
         IN IF a = Comma THEN ApplySet(item, Tail(expr), values, names)
            ELSE ApplySet(Put(item, names[a[2]], values[a[3]]), Tail(expr), values, names)

\* UpdateItem's base: the stored item, or a new item holding the key alone.
KeyOnly(pk, sk) == [k \in {"pk", "sk"} |-> IF k = "pk" THEN pk ELSE sk]
UpdateBase(tbl, pk, sk) ==
    IF At(tbl, pk, sk) = {} THEN KeyOnly(pk, sk) ELSE CHOOSE it \in At(tbl, pk, sk) : TRUE

\* update_item: table.update_item(Key, UpdateExpression, ...); except ClientError -> False.
update_item(tbl, pk, sk, expr, values, names, be) ==
    IF be = "other_error" \/ ~Serializable(values)
    THEN [raised |-> TRUE, val |-> FALSE, tbl |-> tbl]
    ELSE IF be = "client_error" \/ ~WellFormed(expr, values, names)
    THEN [raised |-> FALSE, val |-> FALSE, tbl |-> tbl]
    ELSE [raised |-> FALSE, val |-> TRUE,
          tbl |-> Without(tbl, pk, sk)
                    \cup {ApplySet(UpdateBase(tbl, pk, sk), expr, values, names)}]

\* delete_item: table.delete_item(Key); except ClientError -> False.
\* (variant: a delete conditioned on the item existing)
delete_item_if_exists(tbl, pk, sk, be) ==
    IF be = "other_error"
    THEN [raised |-> TRUE, val |-> FALSE, tbl |-> tbl]
    ELSE IF be = "client_error" \/ At(tbl, pk, sk) = {}
    THEN [raised |-> FALSE, val |-> FALSE, tbl |-> tbl]
    ELSE [raised |-> FALSE, val |-> TRUE, tbl |-> Without(tbl, pk, sk)]

delete_item(tbl, pk, sk, be) ==
    IF be = "other_error"
    THEN [raised |-> TRUE, val |-> FALSE, tbl |-> tbl]
    ELSE IF be = "client_error"
    THEN [raised |-> FALSE, val |-> FALSE, tbl |-> tbl]
    ELSE [raised |-> FALSE, val |-> TRUE, tbl |-> Without(tbl, pk, sk)]

RECURSIVE PutAll(_, _)
PutAll(tbl, items) ==
    IF items = <<>> THEN tbl
    ELSE PutAll(Without(tbl, Head(items)["pk"], Head(items)["sk"]) \cup {Head(items)},
                Tail(items))

\* batch_write_items: batch.put_item for every item inside `with batch_writer()`;
\* a failing flush leaves the first `done` items written.
batch_write_items(tbl, items, be, done) ==
    LET bad == \E i \in 1..Len(items) : ~HasKey(items[i])
        unser == \E i \in 1..Len(items) : ~Serializable(items[i])
    IN IF unser THEN [raised |-> TRUE, val |-> FALSE, tbl |-> tbl]
       ELSE IF bad THEN [raised |-> FALSE, val |-> FALSE, tbl |-> tbl]
       ELSE IF be = "other_error"
       THEN [raised |-> TRUE, val |-> FALSE, tbl |-> PutAll(tbl, SubSeq(items, 1, done))]
       ELSE IF be = "client_error"
       THEN [raised |-> FALSE, val |-> FALSE, tbl |-> PutAll(tbl, SubSeq(items, 1, done))]
       ELSE [raised |-> FALSE, val |-> TRUE, tbl |-> PutAll(tbl, items)]

\* ------------------------------------------------------------ services/project_service.py
\* (variant: the module also imports datetime)
DatetimeImported == TRUE

\* The module imports logging, typing, the models and the gateway, and never
\* datetime: evaluating datetime.utcnow() in it raises NameError.
ServiceHasDatetime == FALSE

\* (variant: one partition for every owner)
UserPkShared(user) == KeyStr("USER", "u1")

UserPk(user) == KeyStr("USER", user)
ProjectSk(id) == KeyStr("PROJECT", id)

\* (variant: partition and sort key swapped)
WithKeysSwapped(project, user) ==
    [f \in DOMAIN project |->
        CASE f = "pk" -> KeyStr("PROJECT", project["id"][2])
          [] f = "sk" -> KeyStr("USER", user)
          [] f = "gsi1pk" -> KeyStr("PROJECT", project["id"][2])
          [] f = "gsi1sk" -> Str("METADATA")
          [] OTHER -> project[f]]

\* project.pk = ..., project.sk = ..., project.gsi1pk = ..., project.gsi1sk = ...
WithKeys(project, user) ==
    [f \in DOMAIN project |->
        CASE f = "pk" -> UserPk(user)
          [] f = "sk" -> ProjectSk(project["id"][2])
          [] f = "gsi1pk" -> ProjectSk(project["id"][2])
          [] f = "gsi1sk" -> Str("METADATA")
          [] OTHER -> project[f]]

Absent == [some |-> FALSE]
Present(project) == [some |-> TRUE, project |-> project]

\* create_project: returns [res, tbl], res the record or Absent.
create_project(tbl, user, input, uid, t1, t2, honoured, be) ==
    LET project == WithKeys(NewProject(uid, t1, t2, user, input.name, input.niche,
                                       input.target_audience), user)
        item == model_to_dynamodb_item(project, honoured)
        put == put_item(tbl, item, be)
    IN IF put.raised THEN [res |-> Absent, tbl |-> put.tbl]
       ELSE IF put.val THEN [res |-> Present(project), tbl |-> put.tbl]
       ELSE [res |-> Absent, tbl |-> put.tbl]

\* get_project: the decoded record, or Absent (no item, a failed read, or an
\* exception caught by the method's except Exception).
get_project(tbl, user, id, be, uid, t) ==
    LET got == get_item(tbl, UserPk(user), ProjectSk(id), be)
    IN IF got.raised \/ got.val = {} THEN Absent
       ELSE LET dec == dynamodb_item_to_model(CHOOSE it \in got.val : TRUE, uid, t)
            IN IF dec.raised THEN Absent ELSE Present(dec.val)

\* list_projects: decodes every item of the page in order; an exception anywhere
\* in the try block yields PaginatedResponse(items=[], next_token=None).
list_projects(tbl, user, limit, next_token, be, cap, uid, t) ==
    LET result == query_items(tbl, UserPk(user), "PROJECT", limit, next_token, be, cap)
        items == result.val.items
        decs == [i \in 1..Len(items) |-> dynamodb_item_to_model(items[i], uid, t)]
        shown == SelectSeq(decs, LAMBDA d : d.val["status"] # Str("deleted"))
    IN IF result.raised \/ \E i \in 1..Len(items) : decs[i].raised
       THEN EmptyPage
       ELSE [items |-> [i \in 1..Len(shown) |-> shown[i].val],
             next_token |-> result.val.next_token]

\* ProjectUpdate.dict(exclude_unset=True): the fields the caller set, in the
\* order the model declares them; a patch is the dict of those fields.
PatchOrder == <<"name", "niche", "target_audience", "topic", "status">>
UpdateData(patch) == SelectSeq(PatchOrder, LAMBDA f : Has(patch, f))

\* setattr(project, field, value) for every field of the patch
Merged(project, patch) ==
    [f \in DOMAIN project |-> IF Has(patch, f) THEN patch[f] ELSE project[f]]

FieldPlaceholders == <<"#field0", "#field1", "#field2", "#field3", "#field4">>
ValuePlaceholders == <<":value0", ":value1", ":value2", ":value3", ":value4">>

\* update_expression after "SET ": "#field{i} = :value{i}" joined by ", ", then
\* ", #updated_at = :updated_at".
RECURSIVE FieldClauses(_, _)
FieldClauses(fields, i) ==
    IF i > Len(fields) THEN <<>>
    ELSE (IF i > 1 THEN <<Comma>> ELSE <<>>)
            \o <<Assign(FieldPlaceholders[i], ValuePlaceholders[i])>>
            \o FieldClauses(fields, i + 1)

UpdateExpression(fields) ==
    FieldClauses(fields, 1) \o <<Comma, Assign("#updated_at", ":updated_at")>>

ExpressionNames(fields) ==
    [n \in {FieldPlaceholders[i] : i \in 1..Len(fields)} \cup {"#updated_at"} |->
        IF n = "#updated_at" THEN "updated_at"
        ELSE fields[CHOOSE i \in 1..Len(fields) : FieldPlaceholders[i] = n]]

ExpressionValues(fields, patch, now) ==
    [v \in {ValuePlaceholders[i] : i \in 1..Len(fields)} \cup {":updated_at"} |->
        IF v = ":updated_at" THEN isoformat(Dt(now))
        ELSE patch[fields[CHOOSE i \in 1..Len(fields) : ValuePlaceholders[i] = v]]]

\* (variant: no read first, the update issued whatever the table holds)
update_project_blind(tbl, user, id, patch, beGet, beUpd, uid, now) ==
    LET fields == UpdateData(patch)
        upd == update_item(tbl, UserPk(user), ProjectSk(id), UpdateExpression(fields),
                           ExpressionValues(fields, patch, now), ExpressionNames(fields), beUpd)
    IN [res |-> Absent, tbl |-> upd.tbl, read |-> TRUE]

\* update_project: returns [res, tbl, read], read telling whether utcnow() ran.
update_project(tbl, user, id, patch, beGet, beUpd, uid, now) ==
    LET got == get_project(tbl, user, id, beGet, uid, now)
    IN IF ~got.some
       THEN [res |-> Absent, tbl |-> tbl, read |-> FALSE]
       ELSE IF ~ServiceHasDatetime
       THEN [res |-> Absent, tbl |-> tbl, read |-> FALSE]
       ELSE LET fields == UpdateData(patch)
                project == Put(Merged(got.project, patch), "updated_at", Dt(now))
                upd == update_item(tbl, UserPk(user), ProjectSk(id),
                                   UpdateExpression(fields),
                                   ExpressionValues(fields, patch, now),
                                   ExpressionNames(fields), beUpd)
            IN IF upd.raised THEN [res |-> Absent, tbl |-> upd.tbl, read |-> TRUE]
               ELSE IF upd.val THEN [res |-> Present(project), tbl |-> upd.tbl, read |-> TRUE]
               ELSE [res |-> Absent, tbl |-> upd.tbl, read |-> TRUE]

\* update_project from line 104 on, for a call that holds the record its
\* get_project returned: the merge, utcnow(), the expression, update_item and
\* the return. Returns [res, tbl, read] as update_project does.
update_project_from(tbl, user, id, patch, got, beUpd, now) ==
    IF ~ServiceHasDatetime
    THEN [res |-> Absent, tbl |-> tbl, read |-> FALSE]
    ELSE LET fields == UpdateData(patch)
             project == Put(Merged(got, patch), "updated_at", Dt(now))
             upd == update_item(tbl, UserPk(user), ProjectSk(id),
                                UpdateExpression(fields),
                                ExpressionValues(fields, patch, now),
                                ExpressionNames(fields), beUpd)
         IN IF upd.raised THEN [res |-> Absent, tbl |-> upd.tbl, read |-> TRUE]
            ELSE IF upd.val THEN [res |-> Present(project), tbl |-> upd.tbl, read |-> TRUE]
            ELSE [res |-> Absent, tbl |-> upd.tbl, read |-> TRUE]

\* delete_project: "SET #status = :status, #updated_at = :updated_at" through
\* update_item; returns [res, tbl, read].
DeleteExpression == <<Assign("#status", ":status"), Comma, Assign("#updated_at", ":updated_at")>>
DeleteNames == [n \in {"#status", "#updated_at"} |-> IF n = "#status" THEN "status" ELSE "updated_at"]
DeleteValues(now) ==
    [v \in {":status", ":updated_at"} |-> IF v = ":status" THEN Str("deleted") ELSE isoformat(Dt(now))]

\* (variant: datetime resolved inside delete_project)
delete_project_importing(tbl, user, id, be, now) ==
    LET upd == update_item(tbl, UserPk(user), ProjectSk(id), DeleteExpression,
                           DeleteValues(now), DeleteNames, be)
    IN IF upd.raised THEN [res |-> FALSE, tbl |-> upd.tbl, read |-> TRUE]
       ELSE [res |-> upd.val, tbl |-> upd.tbl, read |-> TRUE]

delete_project(tbl, user, id, be, now) ==
    IF ~ServiceHasDatetime
    THEN [res |-> FALSE, tbl |-> tbl, read |-> FALSE]
    ELSE LET upd == update_item(tbl, UserPk(user), ProjectSk(id), DeleteExpression,
                                DeleteValues(now), DeleteNames, be)
         IN IF upd.raised THEN [res |-> FALSE, tbl |-> upd.tbl, read |-> TRUE]
            ELSE [res |-> upd.val, tbl |-> upd.tbl, read |-> TRUE]

\* ------------------------------------------------------------ utils/auth.py
\* A bearer token, as far as verification looks at it: whether it parses, the
\* kid of its header, the key that signed it, whether its audience, issuer and
\* expiry pass, and its subject ("none": the payload has no sub).
Kids == {"k1", "k2"}
Token(wf, kid, signer, aud, iss, live, sub) ==
    [wf |-> wf, kid |-> kid, signer |-> signer, aud |-> aud, iss |-> iss,
     live |-> live, sub |-> sub]
MalformedToken == Token(FALSE, "none", "none", FALSE, FALSE, FALSE, "none")
BearerTokens ==
    {Token(TRUE, k, k, TRUE, TRUE, TRUE, "s1") : k \in Kids}
        \cup {Token(TRUE, "k1", "k1", FALSE, TRUE, TRUE, "s1"),
              Token(TRUE, "k1", "k1", TRUE, FALSE, TRUE, "s1"),
              Token(TRUE, "k1", "k1", TRUE, TRUE, FALSE, "s1"),
              Token(TRUE, "k1", "attacker", TRUE, TRUE, TRUE, "admin"),
              Token(TRUE, "none", "k1", TRUE, TRUE, TRUE, "s1"),
              Token(TRUE, "k1", "k1", TRUE, TRUE, TRUE, "none"),
              Token(TRUE, "k9", "attacker", TRUE, TRUE, TRUE, "admin"),
              MalformedToken}

\* The two concurrent calls, before either has started
Threads == {"a", "b"}
ThIdle == [pc |-> "idle"]

\* How cognito_client.get_jwks() ends: with the pool's keys, with ClientError,
\* or with another exception (the client has no such operation: AttributeError).
FetchOutcomes == {"keys", "client_error", "other_error"}

\* self._public_keys: None, or a dict kid -> key (here the set of its kids)
NoCache == [set |-> FALSE, keys |-> {}]
Cached(keys) == [set |-> TRUE, keys |-> keys]
\* not self._public_keys: None and {} are both falsy
Falsy(cache) == ~cache.set \/ cache.keys = {}

\* get_public_keys: returns [exc, keys, cache]
get_public_keys(cache, fetch, jwks) ==
    IF ~Falsy(cache)
    THEN [exc |-> "none", keys |-> cache.keys, cache |-> cache, fetched |-> FALSE]
    ELSE IF fetch = "keys"
    THEN [exc |-> "none", keys |-> jwks, cache |-> Cached(jwks), fetched |-> TRUE]
    ELSE IF fetch = "client_error"
    THEN [exc |-> "none", keys |-> {}, cache |-> Cached({}), fetched |-> TRUE]
    ELSE [exc |-> "Exception", keys |-> {}, cache |-> cache, fetched |-> TRUE]

NoClaims == [some |-> FALSE]
ClaimsOf(token) == [some |-> TRUE, sub |-> token.sub, aud |-> token.aud, iss |-> token.iss]

\* (variant: decode called without the audience)
jwt_decode_any_audience(token, kid) ==
    IF token.signer = kid /\ token.iss /\ token.live
    THEN [exc |-> "none", claims |-> ClaimsOf(token)]
    ELSE [exc |-> "JWTError", claims |-> NoClaims]

\* jwt.decode(token, public_key, algorithms=["RS256"], audience=..., issuer=...):
\* the claims, or an exception when the signature, the audience, the issuer or
\* the expiry does not verify
jwt_decode(token, kid) ==
    IF token.signer = kid /\ token.aud /\ token.iss /\ token.live
    THEN [exc |-> "none", claims |-> ClaimsOf(token)]
    ELSE [exc |-> "JWTError", claims |-> NoClaims]

\* The try block of verify_token: [exc, claims, cache, fetched], fetched telling
\* whether get_jwks() was called
VerifyBody(token, cache, fetch, jwks) ==
    IF ~token.wf
    THEN [exc |-> "JWTError", claims |-> NoClaims, cache |-> cache, fetched |-> FALSE]
    ELSE LET got == get_public_keys(cache, fetch, jwks)
         IN IF got.exc # "none"
            THEN [exc |-> got.exc, claims |-> NoClaims, cache |-> got.cache,
                  fetched |-> got.fetched]
            ELSE IF token.kid \notin got.keys
            THEN [exc |-> "none", claims |-> NoClaims, cache |-> got.cache,
                  fetched |-> got.fetched]
            ELSE LET dec == jwt_decode(token, token.kid)
                 IN [exc |-> dec.exc, claims |-> dec.claims, cache |-> got.cache,
                     fetched |-> got.fetched]

\* verify_token: except Exception -> None. Returns [raised, claims, cache, fetched].
verify_token(token, cache, fetch, jwks) ==
    LET body == VerifyBody(token, cache, fetch, jwks)
    IN IF body.exc # "none"
       THEN [raised |-> FALSE, claims |-> NoClaims, cache |-> body.cache,
             fetched |-> body.fetched]
       ELSE [raised |-> FALSE, claims |-> body.claims, cache |-> body.cache,
             fetched |-> body.fetched]

\* jwt.get_unverified_claims(token).get('sub')
extract_user_id_from_token(token) == IF token.wf THEN token.sub ELSE "none"

\* generate_policy: context attached only when truthy
generate_policy(principal, effect, resource, context) ==
    [principalId |-> principal, effect |-> effect, resource |-> resource,
     context |-> IF context.some THEN context ELSE NoClaims]

\* claims.get('sub', 'user')
SubOrUser(claims) == IF claims.sub = "none" THEN "user" ELSE claims.sub

\* An authorizer event: authorizationToken missing, empty, or a token with or
\* without the "Bearer " prefix; methodArn always given.
Events ==
    {[auth |-> "missing", token |-> MalformedToken], [auth |-> "empty", token |-> MalformedToken]}
        \cup {[auth |-> a, token |-> t] : a \in {"raw", "bearer"}, t \in BearerTokens}
MethodArn == "arn"

\* (variant: the decision taken on the unverified subject)
lambda_authorizer_unverified(event, cache, fetch, jwks) ==
    IF event.auth \in {"missing", "empty"} \/ extract_user_id_from_token(event.token) = "none"
    THEN [policy |-> generate_policy("user", "Deny", MethodArn, NoClaims), cache |-> cache,
          verified |-> FALSE, fetched |-> FALSE]
    ELSE [policy |-> generate_policy(SubOrUser(ClaimsOf(event.token)), "Allow", MethodArn,
                                     ClaimsOf(event.token)),
          cache |-> cache, verified |-> FALSE, fetched |-> FALSE]

\* lambda_authorizer(event, context): [policy, cache, verified, fetched], verified
\* telling whether verify_token was called
lambda_authorizer(event, cache, fetch, jwks) ==
    IF event.auth \in {"missing", "empty"}
    THEN [policy |-> generate_policy("user", "Deny", MethodArn, NoClaims), cache |-> cache,
          verified |-> FALSE, fetched |-> FALSE]
    ELSE LET v == verify_token(event.token, cache, fetch, jwks)
         IN IF ~v.claims.some
            THEN [policy |-> generate_policy("user", "Deny", MethodArn, NoClaims),
                  cache |-> v.cache, verified |-> TRUE, fetched |-> v.fetched]
            ELSE [policy |-> generate_policy(SubOrUser(v.claims), "Allow", MethodArn, v.claims),
                  cache |-> v.cache, verified |-> TRUE, fetched |-> v.fetched]

\* ------------------------------------------------------------ state
VARIABLES
    table,           \* the DynamoDB table: a set of items, one per (pk, sk)
    clock,           \* the last value datetime.utcnow() returned
    issued,          \* the ids already in use, which uuid4 does not produce again
    honoursExclude,  \* whether the installed pydantic honours Field(exclude=True)
    pg,              \* a caller's pagination loop over query_items
    last,            \* the call that made the last step, with its result
    publicKeys,      \* CognitoAuthManager._public_keys
    idpKeys,         \* the kids the user pool publishes now
    attempted,       \* whether verify_token has been called on the manager
    th,              \* two concurrent verify_token calls: where each is, and its locals
    updating         \* two concurrent update_project calls: where each is, and its locals

storeVars == <<table, clock, issued, honoursExclude, pg>>
authVars == <<publicKeys, idpKeys, attempted, th>>
vars == <<table, clock, issued, honoursExclude, pg, last, publicKeys, idpKeys, attempted, th,
          updating>>

\* ------------------------------------------------------------ inputs
ProjectInputs ==
    {[name |-> Str("n1"), niche |-> Str("travel"), target_audience |-> Str("adults")]}

OneField(f, v) == [k \in {f} |-> v]
Patches ==
    {EmptyDict, OneField("name", Str("n2")), OneField("name", PyNone)}
        \cup {OneField("status", Str(st)) : st \in Statuses}

\* Items other writers hand to the gateway: a complete project item, an item
\* holding only what a soft delete sets, an item of another type in the same
\* partition, an item without its partition key, one holding a datetime.
ProjectItem(user, id, st) ==
    Put(model_to_dynamodb_item(
            WithKeys(NewProject(id, 0, 0, user, Str("n1"), Str("travel"), Str("adults")), user),
            FALSE),
        "status", Str(st))
PartialItem(user, id) ==
    Put(Put(KeyOnly(UserPk(user), ProjectSk(id)), "status", Str("deleted")), "updated_at", Iso(0))
ScriptItem(user) ==
    Put(KeyOnly(UserPk(user), KeyStr("SCRIPT", "s1")), "id", Str("s1"))
KeylessItem == OneField("sk", ProjectSk("p1"))
DatetimeItem(user) == Put(ProjectItem(user, "p1", "active"), "created_at", Dt(0))

\* What other writers have put under the service's keys
SeedItems ==
    {ProjectItem("u1", "p1", st) : st \in Statuses} \cup {PartialItem("u1", "p2")}
\* What fills the partitions a caller pages through
PageItems ==
    {ProjectItem("u1", i, "active") : i \in Ids}
        \cup {ProjectItem("u2", "p1", "active"), ScriptItem("u1")}
\* What callers hand to the gateway directly, and the keys they address
GatewayItems ==
    {ProjectItem(u, "p1", "active") : u \in Owners}
        \cup {PartialItem("u1", "p1"), KeylessItem, DatetimeItem("u1")}
GatewayKeys == {<<UserPk(u), ProjectSk("p1")>> : u \in Owners}
Batches ==
    {<<ProjectItem("u1", "p1", "active"), ProjectItem("u2", "p1", "active")>>,
     <<ProjectItem("u1", "p1", "active"), KeylessItem>>}

\* The Projects handed to the codec: with keys set as create_project sets them,
\* any status, timestamps apart or not, with and without a topic
RoundTripModels ==
    {Put(Put(WithKeys(NewProject("p1", t1, t2, u, Str("n1"), Str("travel"), Str("adults")), u),
             "status", Str(st)), "topic", tp) :
        u \in Owners, st \in Statuses, t1 \in 0..MaxClock, t2 \in 0..MaxClock,
        tp \in {PyNone, Topic(0)}}

Limits == 0..MaxLimit
PageCaps == 1..MaxPage
Prefixes == {"", "PROJECT"}
\* The cursors a caller of list_projects passes: none, not JSON, an earlier page's
ListTokens(user) == {NoToken, BadToken, json_dumps_key(UserPk(user), ProjectSk("p1"))}
\* The cursor and the backend's outcome in the list and query calls
ListCalls(user) ==
    {<<tok, "ok">> : tok \in ListTokens(user)}
        \cup {<<NoToken, be>> : be \in BackendOutcomes}

PgIdle == [on |-> FALSE]
\* A write that changes the table ends the caller's pagination loop.
PgAfter(tbl) == IF tbl = table THEN pg ELSE PgIdle

IdOf(sk) == IF sk[2] = "PROJECT" THEN {sk[3]} ELSE {}
\* uuid4(): an id not in use; ids are interchangeable, so the first such
IdOrder == <<"p1", "p2">>
uuid4(used) == IdOrder[CHOOSE i \in 1..Len(IdOrder) :
                          IdOrder[i] \notin used /\ \A j \in 1..(i - 1) : IdOrder[j] \in used]
\* The patch and the outcome of the read in the update calls
UpdateCalls ==
    {<<patch, "ok">> : patch \in Patches}
        \cup {<<OneField("name", Str("n2")), be>> : be \in BackendOutcomes}
\* The clock's advance between the two reads and the put's outcome in the create calls
CreateCalls == {<<d, "ok">> : d \in 0..1} \cup {<<0, be>> : be \in BackendOutcomes}
\* What uuid4 and utcnow would give a decode that has to default id or a timestamp
FreshId == "fresh"

Init ==
    /\ table = {}
    /\ clock = 0
    /\ issued = {}
    /\ honoursExclude \in BOOLEAN
    /\ pg = PgIdle
    /\ last = [op |-> "init"]
    /\ publicKeys = NoCache
    /\ idpKeys = {"k1"}
    /\ attempted = FALSE
    /\ th = [t \in Threads |-> ThIdle]
    /\ updating = [t \in Threads |-> ThIdle]

\* ------------------------------------------------------------ service calls
CreateProject(user, input, uid, d, be) ==
    /\ Ids \ issued # {}
    /\ uid = uuid4(issued)
    /\ clock + d <= MaxClock
    /\ \E r \in {create_project(table, user, input, uid, clock, clock + d,
                                honoursExclude, be)} :
          /\ table' = r.tbl
          /\ pg' = PgAfter(r.tbl)
          /\ last' = [op |-> "create_project", user |-> user, id |-> uid,
                      input |-> input, res |-> r.res]
    /\ clock' = clock + d
    /\ issued' = issued \cup {uid}
    /\ UNCHANGED <<honoursExclude, authVars, updating>>

GetProject(user, id, be) ==
    /\ last' = [op |-> "get_project", user |-> user, id |-> id, ok |-> be = "ok",
                res |-> get_project(table, user, id, be, FreshId, clock)]
    /\ UNCHANGED <<table, clock, issued, honoursExclude, pg, authVars, updating>>

ListProjects(user, limit, token, be, cap) ==
    /\ last' = [op |-> "list_projects", user |-> user, limit |-> limit, token |-> token,
                ok |-> be = "ok",
                res |-> list_projects(table, user, limit, token, be, cap, FreshId, clock)]
    /\ UNCHANGED <<table, clock, issued, honoursExclude, pg, authVars, updating>>

UpdateProject(user, id, patch, beGet, beUpd, d) ==
    /\ clock + d <= MaxClock
    /\ \E r \in {update_project(table, user, id, patch, beGet, beUpd, FreshId, clock + d)} :
          /\ (~r.read => d = 0 /\ beUpd = "ok")
          /\ table' = r.tbl
          /\ clock' = IF r.read THEN clock + d ELSE clock
          /\ pg' = PgAfter(r.tbl)
          /\ last' = [op |-> "update_project", user |-> user, id |-> id, patch |-> patch,
                      okGet |-> beGet = "ok", okUpd |-> beUpd = "ok", res |-> r.res]
    /\ UNCHANGED <<issued, honoursExclude, authVars, updating>>

DeleteProject(user, id, be, d) ==
    /\ clock + d <= MaxClock
    /\ \E r \in {delete_project(table, user, id, be, clock + d)} :
          /\ (~r.read => d = 0 /\ be = "ok")
          /\ table' = r.tbl
          /\ clock' = IF r.read THEN clock + d ELSE clock
          /\ issued' = IF r.tbl = table THEN issued ELSE issued \cup {id}
          /\ pg' = PgAfter(r.tbl)
          /\ last' = [op |-> "delete_project", user |-> user, id |-> id,
                      ok |-> be = "ok", res |-> r.res]
    /\ UNCHANGED <<honoursExclude, authVars, updating>>

\* ------------------------------------------------------------ gateway and codec calls
GwPutItem(item, be) ==
    \E r \in {put_item(table, item, be)} :
       /\ table' = r.tbl
       /\ issued' = IF r.tbl = table THEN issued ELSE issued \cup IdOf(item["sk"])
       /\ pg' = PgAfter(r.tbl)
       /\ last' = [op |-> "put_item", item |-> item, be |-> be,
                   raised |-> r.raised, res |-> r.val]
       /\ UNCHANGED <<clock, honoursExclude, authVars, updating>>

GwGetItem(pk, sk, be) ==
    \E r \in {get_item(table, pk, sk, be)} :
       /\ last' = [op |-> "get_item", pk |-> pk, sk |-> sk, be |-> be,
                   raised |-> r.raised, res |-> r.val]
       /\ UNCHANGED <<table, clock, issued, honoursExclude, pg, authVars, updating>>

GwQueryItems(pk, prefix, limit, token, be, cap) ==
    \E r \in {query_items(table, pk, prefix, limit, token, be, cap)} :
       /\ last' = [op |-> "query_items", pk |-> pk, prefix |-> prefix, limit |-> limit,
                   token |-> token, be |-> be, raised |-> r.raised, res |-> r.val]
       /\ UNCHANGED <<table, clock, issued, honoursExclude, pg, authVars, updating>>

\* update_item as delete_project's caller shape uses it: SET status, updated_at
GwUpdateItem(pk, sk, be) ==
    \E r \in {update_item(table, pk, sk, DeleteExpression, DeleteValues(clock), DeleteNames, be)} :
       /\ table' = r.tbl
       /\ issued' = IF r.tbl = table THEN issued ELSE issued \cup IdOf(sk)
       /\ pg' = PgAfter(r.tbl)
       /\ last' = [op |-> "update_item", pk |-> pk, sk |-> sk, be |-> be,
                   raised |-> r.raised, res |-> r.val]
       /\ UNCHANGED <<clock, honoursExclude, authVars, updating>>

GwDeleteItem(pk, sk, be) ==
    \E r \in {delete_item(table, pk, sk, be)} :
       /\ table' = r.tbl
       /\ pg' = PgAfter(r.tbl)
       /\ last' = [op |-> "delete_item", pk |-> pk, sk |-> sk, be |-> be,
                   raised |-> r.raised, res |-> r.val,
                   existed |-> At(table, pk, sk) # {},
                   again |-> /\ last.op = "delete_item" /\ last.be = "ok"
                             /\ last.pk = pk /\ last.sk = sk]
       /\ UNCHANGED <<clock, issued, honoursExclude, authVars, updating>>

GwBatchWrite(items, be, done) ==
    \E r \in {batch_write_items(table, items, be, done)} :
       /\ done <= Len(items)
       /\ (be = "ok" => done = Len(items))
       /\ table' = r.tbl
       /\ issued' = issued \cup UNION {IdOf(it["sk"]) : it \in {x \in r.tbl : x \notin table}}
       /\ pg' = PgAfter(r.tbl)
       /\ last' = [op |-> "batch_write_items", items |-> items, be |-> be,
                   raised |-> r.raised, res |-> r.val]
       /\ UNCHANGED <<clock, honoursExclude, authVars, updating>>

CodecEncode(model) ==
    /\ last' = [op |-> "model_to_dynamodb_item", model |-> model, raised |-> FALSE,
                res |-> model_to_dynamodb_item(model, honoursExclude)]
    /\ UNCHANGED <<table, clock, issued, honoursExclude, pg, authVars, updating>>

\* model_to_dynamodb_item, then dynamodb_item_to_model on what it returned
CodecRoundTrip(model) ==
    \E r \in {dynamodb_item_to_model(model_to_dynamodb_item(model, honoursExclude),
                                      FreshId, clock)} :
       /\ last' = [op |-> "round_trip", model |-> model, raised |-> r.raised, res |-> r.val]
       /\ UNCHANGED <<table, clock, issued, honoursExclude, pg, authVars, updating>>

CodecDecode(item) ==
    \E r \in {dynamodb_item_to_model(item, FreshId, clock)} :
       /\ last' = [op |-> "dynamodb_item_to_model", item |-> item,
                   raised |-> r.raised, res |-> r.val]
       /\ UNCHANGED <<table, clock, issued, honoursExclude, pg, authVars, updating>>

\* ------------------------------------------------------------ a caller's pagination loop
\* The caller queries with limit k, then passes each next_token back until none.
PgFrom(pk, prefix, limit, r, be, acc, failed) ==
    [on |-> TRUE, pk |-> pk, prefix |-> prefix, limit |-> limit,
     token |-> r.val.next_token, acc |-> acc \o r.val.items,
     failed |-> failed \/ be # "ok" \/ r.raised,
     done |-> r.raised \/ r.val.next_token.kind = "none"]

PageStart(pk, prefix, limit, be, cap) ==
    \E r \in {query_items(table, pk, prefix, limit, NoToken, be, cap)} :
       /\ limit >= 1
       /\ pg' = PgFrom(pk, prefix, limit, r, be, <<>>, FALSE)
       /\ last' = [op |-> "page", raised |-> r.raised]
       /\ UNCHANGED <<table, clock, issued, honoursExclude, authVars, updating>>

PageNext(be, cap) ==
    /\ pg.on /\ ~pg.done
    /\ LET r == query_items(table, pg.pk, pg.prefix, pg.limit, pg.token, be, cap)
       IN /\ pg' = PgFrom(pg.pk, pg.prefix, pg.limit, r, be, pg.acc, pg.failed)
          /\ last' = [op |-> "page", raised |-> r.raised]
    /\ UNCHANGED <<table, clock, issued, honoursExclude, authVars, updating>>

\* Another writer's put, which stores its item
OtherWriterPut(item) ==
    /\ table' = put_item(table, item, "ok").tbl
    /\ table' # table
    /\ issued' = issued \cup IdOf(item["sk"])
    /\ pg' = PgIdle
    /\ last' = [op |-> "other_writer"]
    /\ UNCHANGED <<clock, honoursExclude, authVars, updating>>

\* ------------------------------------------------------------ auth calls
VerifyToken(token, fetch) ==
    /\ \E v \in {verify_token(token, publicKeys, fetch, idpKeys)} :
          /\ publicKeys' = v.cache
          /\ last' = [op |-> "verify_token", token |-> token, fetch |-> fetch,
                      raised |-> v.raised, claims |-> v.claims, fetched |-> v.fetched]
    /\ attempted' = TRUE
    /\ UNCHANGED <<storeVars, updating, idpKeys, th>>

Authorize(event, fetch) ==
    /\ \E a \in {lambda_authorizer(event, publicKeys, fetch, idpKeys)} :
          /\ publicKeys' = a.cache
          /\ attempted' = (attempted \/ a.verified)
          /\ last' = [op |-> "lambda_authorizer", event |-> event, fetch |-> fetch,
                      policy |-> a.policy, fetched |-> a.fetched]
    /\ UNCHANGED <<storeVars, updating, idpKeys, th>>

\* The pool rotates its signing keys
RotateKeys(keys) ==
    /\ keys # idpKeys
    /\ idpKeys' = keys
    /\ last' = [op |-> "rotate"]
    /\ UNCHANGED <<storeVars, updating, publicKeys, attempted, th>>

\* ------------------------------------------------------------ two concurrent verify_token calls
\* Each call runs verify_token statement by statement; the two share
\* self._public_keys. A call is at "check" (line 28), "fetch" (line 30),
\* "write" (lines 31-33: the dict is built, then assigned), "write_empty"
\* (line 36), "return" (line 37, then lines 48-63), or "done".
RaceCall(t, token) ==
    /\ th[t].pc = "idle"
    /\ Falsy(publicKeys)
    /\ th' = [th EXCEPT ![t] = [pc |-> "check", token |-> token, fetch |-> "none"]]
    /\ attempted' = TRUE
    /\ UNCHANGED <<storeVars, updating, last, publicKeys, idpKeys>>

\* if not self._public_keys:
RaceCheck(t) ==
    /\ th[t].pc = "check"
    /\ th' = [th EXCEPT ![t].pc = IF Falsy(publicKeys) THEN "fetch" ELSE "return"]
    /\ UNCHANGED <<storeVars, updating, last, publicKeys, idpKeys, attempted>>

\* response = self.cognito_client.get_jwks(), and the dict built from it
RaceFetch(t, fetch) ==
    /\ th[t].pc = "fetch"
    /\ th' = [th EXCEPT ![t] =
                 CASE fetch = "keys" ->
                        [pc |-> "write", token |-> th[t].token, fetch |-> fetch,
                         built |-> Cached(idpKeys)]
                   [] fetch = "client_error" ->
                        [pc |-> "write_empty", token |-> th[t].token, fetch |-> fetch]
                   [] OTHER ->
                        [pc |-> "done", token |-> th[t].token, fetch |-> fetch,
                         seen |-> publicKeys, claims |-> NoClaims]]
    /\ UNCHANGED <<storeVars, updating, last, publicKeys, idpKeys, attempted>>

\* self._public_keys = {...}   /   except ClientError: self._public_keys = {}
RaceWrite(t) ==
    /\ th[t].pc \in {"write", "write_empty"}
    /\ publicKeys' = IF th[t].pc = "write" THEN th[t].built ELSE Cached({})
    /\ th' = [th EXCEPT ![t] = [pc |-> "return", token |-> th[t].token,
                                fetch |-> th[t].fetch]]
    /\ UNCHANGED <<storeVars, updating, last, idpKeys, attempted>>

\* return self._public_keys, then the rest of verify_token on what was returned
RaceReturn(t) ==
    /\ th[t].pc = "return"
    /\ th' = [th EXCEPT ![t] =
                 [pc |-> "done", token |-> th[t].token, fetch |-> th[t].fetch,
                  seen |-> publicKeys,
                  claims |-> IF th[t].token.kid \notin publicKeys.keys THEN NoClaims
                             ELSE jwt_decode(th[t].token, th[t].token.kid).claims]]
    /\ UNCHANGED <<storeVars, updating, last, publicKeys, idpKeys, attempted>>

\* ------------------------------------------------------------ two concurrent update_project calls
\* Each call runs update_project in two steps, the two requests it sends to
\* the table: the read (lines 99-101) and, for a call that found its record,
\* everything from line 104 to the return, update_item included. A call is
\* "idle", at "write" (holding the record it read), or "done".
UpdSeed(item) ==
    /\ \A t \in Threads : updating[t].pc = "idle"
    /\ OtherWriterPut(item)

\* project = self.get_project(user_id, project_id); if not project: return None
UpdRead(t, user, id, patch, be) ==
    /\ updating[t].pc = "idle"
    /\ \E got \in {get_project(table, user, id, be, FreshId, clock)} :
          updating' = [updating EXCEPT ![t] =
              IF got.some
              THEN [pc |-> "write", user |-> user, id |-> id, patch |-> patch,
                    project |-> got.project]
              ELSE [pc |-> "done", user |-> user, id |-> id, patch |-> patch,
                    found |-> FALSE, okUpd |-> TRUE, res |-> Absent]]
    /\ UNCHANGED <<storeVars, last, authVars>>

\* lines 104-141 on the record the call read
UpdWrite(t, be, d) ==
    /\ updating[t].pc = "write"
    /\ clock + d <= MaxClock
    /\ \E r \in {update_project_from(table, updating[t].user, updating[t].id,
                                       updating[t].patch, updating[t].project, be,
                                       clock + d)} :
          /\ (~r.read => d = 0 /\ be = "ok")
          /\ table' = r.tbl
          /\ clock' = IF r.read THEN clock + d ELSE clock
          /\ pg' = PgAfter(r.tbl)
          /\ updating' = [updating EXCEPT ![t] =
                 [pc |-> "done", user |-> updating[t].user, id |-> updating[t].id,
                  patch |-> updating[t].patch, found |-> TRUE, okUpd |-> be = "ok",
                  res |-> r.res]]
    /\ UNCHANGED <<issued, honoursExclude, last, authVars>>

\* ------------------------------------------------------------ specifications
\* The project service over a table other writers also put to
Next ==
    \/ \E u \in Owners, input \in ProjectInputs, uid \in Ids, c \in CreateCalls :
          CreateProject(u, input, uid, c[1], c[2])
    \/ \E u \in Owners, i \in Ids, be \in BackendOutcomes : GetProject(u, i, be)
    \/ \E u \in Owners, limit \in Limits :
          \E c \in ListCalls(u) : ListProjects(u, limit, c[1], c[2], MaxPage)
    \/ \E u \in Owners, i \in Ids, c \in UpdateCalls, beUpd \in BackendOutcomes,
          d \in 0..1 : UpdateProject(u, i, c[1], c[2], beUpd, d)
    \/ \E u \in Owners, i \in Ids, be \in BackendOutcomes, d \in 0..1 :
          DeleteProject(u, i, be, d)
    \/ \E item \in SeedItems : OtherWriterPut(item)

Spec == Init /\ [][Next]_vars

\* The gateway and the codec called directly
GwNext ==
    \/ \E item \in GatewayItems, be \in BackendOutcomes : GwPutItem(item, be)
    \/ \E k \in GatewayKeys, be \in BackendOutcomes : GwGetItem(k[1], k[2], be)
    \/ \E prefix \in Prefixes, limit \in Limits :
          \E c \in ListCalls("u1") :
              GwQueryItems(UserPk("u1"), prefix, limit, c[1], c[2], MaxPage)
    \/ \E k \in GatewayKeys, be \in BackendOutcomes : GwUpdateItem(k[1], k[2], be)
    \/ \E k \in GatewayKeys, be \in BackendOutcomes : GwDeleteItem(k[1], k[2], be)
    \/ \E items \in Batches, be \in BackendOutcomes, done \in 0..2 :
          GwBatchWrite(items, be, done)
    \/ \E u \in Owners : CodecEncode(WithKeys(
            NewProject("p1", 0, clock, u, Str("n1"), Str("travel"), Str("adults")), u))
    \/ \E item \in GatewayItems : CodecDecode(item)
    \/ \E model \in RoundTripModels : CodecRoundTrip(model)

GwSpec == Init /\ [][GwNext]_vars

\* A caller paging through a partition between other writers' puts
PageNext_ ==
    \/ \E item \in PageItems : OtherWriterPut(item)
    \/ \E pk \in PKs, prefix \in Prefixes, limit \in Limits, be \in BackendOutcomes,
          cap \in PageCaps : PageStart(pk, prefix, limit, be, cap)
    \/ \E be \in BackendOutcomes, cap \in PageCaps : PageNext(be, cap)

PageSpec == Init /\ [][PageNext_]_vars

\* The auth manager and the authorizer built on it
AuthNext ==
    \/ \E token \in BearerTokens, fetch \in FetchOutcomes : VerifyToken(token, fetch)
    \/ \E event \in Events, fetch \in FetchOutcomes : Authorize(event, fetch)
    \/ \E keys \in SUBSET Kids : RotateKeys(keys)

AuthSpec == Init /\ [][AuthNext]_vars

\* Two verify_token calls on one manager whose cache is empty, interleaved
\* statement by statement
RaceTokens == {t \in BearerTokens : t.wf /\ t.aud /\ t.iss /\ t.live /\ t.sub = "s1"}
RaceNext ==
    \/ \E t \in Threads, token \in RaceTokens : RaceCall(t, token)
    \/ \E t \in Threads : RaceCheck(t)
    \/ \E t \in Threads, fetch \in FetchOutcomes : RaceFetch(t, fetch)
    \/ \E t \in Threads : RaceWrite(t)
    \/ \E t \in Threads : RaceReturn(t)

RaceSpec == Init /\ [][RaceNext]_vars

\* Two update_project calls on a table other writers filled before, interleaved
\* request by request; each patches one field, and the first call's field is
\* never the second's
UpdNext ==
    \/ \E item \in SeedItems : UpdSeed(item)
    \/ \E t \in Threads, u \in Owners, i \in Ids, be \in BackendOutcomes :
          \E patch \in (IF t = "a" THEN {OneField("name", Str("n2"))}
                         ELSE {OneField("niche", Str("food")),
                               OneField("status", Str("archived"))}) :
              UpdRead(t, u, i, patch, be)
    \/ \E t \in Threads, be \in BackendOutcomes, d \in 0..1 : UpdWrite(t, be, d)

UpdSpec == Init /\ [][UpdNext]_vars

\* ------------------------------------------------------------ properties
ServiceOps == {"create_project", "get_project", "list_projects", "update_project",
               "delete_project"}
GatewayOps == {"put_item", "get_item", "query_items", "update_item", "delete_item",
               "batch_write_items", "model_to_dynamodb_item", "dynamodb_item_to_model"}

\* What the service's reads show of the table now, the backend answering
GetNow(user, id) == get_project(table, user, id, "ok", FreshId, clock)
ListNow(user) == list_projects(table, user, 0, NoToken, "ok", MaxPage + 1, FreshId, clock)
ListedIds(page) == {page.items[i]["id"] : i \in 1..Len(page.items)}
ListPagesOmit(user, id) ==
    \A limit \in Limits, cap \in PageCaps, tok \in ListTokens(user) :
        Str(id) \notin ListedIds(list_projects(table, user, limit, tok, "ok", cap, FreshId, clock))

StoredAt(tbl, user, id) == At(tbl, UserPk(user), ProjectSk(id))
TheItem(S) == CHOOSE it \in S : TRUE
\* The stored status under (user, id): "none" without an item or a status
StatusAt(tbl, user, id) ==
    IF StoredAt(tbl, user, id) = {} THEN "none"
    ELSE IF ~Has(TheItem(StoredAt(tbl, user, id)), "status") THEN "none"
    ELSE TheItem(StoredAt(tbl, user, id))["status"][2]

\* C1: soft-delete invisibility. delete_project(owner, id) on a stored record,
\* the backend answering, returns success; and once it has returned success,
\* no page of list_projects(owner, ...) holds the id while get_project(owner, id)
\* still returns the record, with status "deleted".
C1_SoftDeleteInvisible ==
    (last.op = "delete_project" /\ last.ok /\ GetNow(last.user, last.id).some)
        => /\ last.res
           /\ ListPagesOmit(last.user, last.id)
           /\ GetNow(last.user, last.id).project["status"] = Str("deleted")

\* C2: partial update isolation. update_project on a stored record with a patch
\* of one field, the backend answering, leaves every other stored field as it
\* was (id, user_id, created_at and the routing keys among them) and stores an
\* updated_at strictly later than the one before the call.
C2_Step ==
    (/\ last'.op = "update_project" /\ last'.okGet /\ last'.okUpd
     /\ Cardinality(DOMAIN last'.patch) = 1
     /\ get_project(table, last'.user, last'.id, "ok", FreshId, clock).some)
        => /\ StoredAt(table', last'.user, last'.id) # {}
           /\ LET old == TheItem(StoredAt(table, last'.user, last'.id))
                  new == TheItem(StoredAt(table', last'.user, last'.id))
              IN /\ \A f \in (DOMAIN old) \ ((DOMAIN last'.patch) \cup {"updated_at"}) :
                      Has(new, f) /\ new[f] = old[f]
                 /\ new["updated_at"][2] > old["updated_at"][2]
C2_PartialUpdateIsolation == [][C2_Step]_vars

C4_Step ==
    (last'.op \in ServiceOps /\ table' # table) =>
        \A u \in Owners, i \in Ids :
            /\ StatusAt(table, u, i) = "deleted" => StatusAt(table', u, i) = "deleted"
            /\ StatusAt(table, u, i) \in {"active", "archived"}
                  => StatusAt(table', u, i) \in Statuses
C4_DeletedIsTerminal == [][C4_Step]_vars
\* an update asking for another status has run on a record stored as deleted
C4_UpdateOnDeleted ==
    /\ last.op = "update_project" /\ last.okGet
    /\ Has(last.patch, "status") /\ last.patch["status"] # Str("deleted")
    /\ StatusAt(table, last.user, last.id) = "deleted"

\* An item that decodes to a Project with every required field present and not
\* null and a status among active, archived, deleted
ValidProjectItem(item) ==
    /\ Decodable(item)
    /\ \A f \in RequiredFields \cup BaseFields \cup {"status"} : Has(item, f) /\ ~IsNone(item[f])

\* C5: schema-valid store. Every service call, succeeding or failing, either
\* leaves the table as it was or writes items that each decode to a valid
\* Project, and removes none.
C5_Step ==
    last'.op \in ServiceOps =>
        /\ \A it \in table' \ table : ValidProjectItem(it)
        /\ \A it \in table \ table' : At(table', it["pk"], it["sk"]) # {}
C5_SchemaValidStore == [][C5_Step]_vars
\* a soft delete has run for a key that holds no item
C5_DeleteOfMissing ==
    last.op = "delete_project" /\ last.ok /\ StoredAt(table, last.user, last.id) = {}

\* C6: pagination completeness. A caller that queries a partition with limit
\* k >= 1 and passes each next_token back until none is returned has, when no
\* call failed and the table did not change meanwhile, collected the matching
\* items of the partition, each once, in sort-key order.
C6_PaginationComplete ==
    (pg.on /\ pg.done /\ ~pg.failed)
        => pg.acc = InOrder(Matching(table, pg.pk, pg.prefix))
C6_SeveralPages == pg.on /\ pg.done /\ ~pg.failed /\ Len(pg.acc) > pg.limit

\* C7: gateway and codec never raise. Every call of put_item, get_item,
\* query_items, update_item, delete_item, batch_write_items,
\* model_to_dynamodb_item and dynamodb_item_to_model returns a value; no
\* exception leaves it.
C7_GatewayNeverRaises == last.op \in GatewayOps => ~last.raised

\* C10: no create-on-update. update_project(owner, id, patch) whose read finds
\* no record (no item, a failed read, an item that does not decode) returns
\* absent and leaves the table as it was.
C10_Step ==
    (/\ last'.op = "update_project"
     /\ ~get_project(table, last'.user, last'.id,
                     IF last'.okGet THEN "ok" ELSE "client_error", FreshId, clock).some)
        => last'.res = Absent /\ table' = table
C10_NoCreateOnUpdate == [][C10_Step]_vars
C10_UpdateOfMissing ==
    last.op = "update_project" /\ last.okGet /\ StoredAt(table, last.user, last.id) = {}

\* What the claim asks of an accepted token: its kid among the cached keys, its
\* signature by that key, its audience and its issuer the configured ones
Acceptable(token) ==
    /\ token.wf
    /\ publicKeys.set /\ token.kid \in publicKeys.keys
    /\ token.signer = token.kid
    /\ token.aud /\ token.iss

\* C8: token verification never throws and never accepts an unknown key.
\* verify_token returns None, and raises nothing, for a token whose kid is not
\* in the cached key set, for a malformed token and when the key fetch fails;
\* it returns claims only for a token that verifies against the cached key of
\* its kid with the configured audience and issuer.
C8_VerifyRejectsUnknownKey ==
    last.op = "verify_token" =>
        /\ ~last.raised
        /\ last.claims.some => Acceptable(last.token)
        /\ (~last.token.wf \/ ~publicKeys.set \/ last.token.kid \notin publicKeys.keys)
              => ~last.claims.some
C8_UnknownKidRejected ==
    /\ last.op = "verify_token" /\ last.token.wf
    /\ publicKeys.set /\ publicKeys.keys # {} /\ last.token.kid \notin publicKeys.keys

\* C9: authorization decision. The authorizer answers Allow only for a bearer
\* token that verify_token accepts, with principalId the claims' subject (where
\* the claims have one) and the claims as context; for a missing or a rejected
\* token it answers Deny with no claims context.
C9_AllowOnlyVerified ==
    last.op = "lambda_authorizer" =>
        /\ last.policy.effect \in {"Allow", "Deny"}
        /\ last.policy.effect = "Allow" =>
              /\ last.event.auth \in {"raw", "bearer"}
              /\ Acceptable(last.event.token) /\ last.event.token.live
              /\ last.event.token.sub # "none"
                    => last.policy.principalId = last.event.token.sub
              /\ last.policy.context = ClaimsOf(last.event.token)
        /\ last.policy.effect = "Deny" => ~last.policy.context.some
        /\ (last.event.auth \in {"missing", "empty"} \/ ~Acceptable(last.event.token))
              => last.policy.effect = "Deny"
C9_Allowed ==
    /\ last.op = "lambda_authorizer" /\ last.policy.effect = "Allow"
    /\ last.event.auth = "bearer" /\ last.policy.principalId = "s1"

\* C11: empty patch. update_project on a stored record with a patch that sets
\* no field, the backend answering, returns the record, builds a well-formed
\* update expression that assigns updated_at alone, stores a later updated_at
\* and leaves every other stored field as it was.
C11_Step ==
    (/\ last'.op = "update_project" /\ last'.okGet /\ last'.okUpd
     /\ DOMAIN last'.patch = {}
     /\ get_project(table, last'.user, last'.id, "ok", FreshId, clock).some)
        => /\ last'.res.some
           /\ UpdateExpression(UpdateData(last'.patch))
                 = <<Assign("#updated_at", ":updated_at")>>
           /\ WellFormed(UpdateExpression(UpdateData(last'.patch)),
                         ExpressionValues(UpdateData(last'.patch), last'.patch, clock'),
                         ExpressionNames(UpdateData(last'.patch)))
           /\ StoredAt(table', last'.user, last'.id) # {}
           /\ LET old == TheItem(StoredAt(table, last'.user, last'.id))
                  new == TheItem(StoredAt(table', last'.user, last'.id))
              IN /\ \A f \in (DOMAIN old) \ {"updated_at"} : Has(new, f) /\ new[f] = old[f]
                 /\ new["updated_at"][2] > old["updated_at"][2]
C11_EmptyPatchUpdates == [][C11_Step]_vars

\* The records of a page that decode and are not deleted, in the page's order
DecodableShown(items) ==
    LET good == SelectSeq(items, LAMBDA it :
                    /\ Decodable(it)
                    /\ dynamodb_item_to_model(it, FreshId, clock).val["status"] # Str("deleted"))
    IN [i \in 1..Len(good) |-> dynamodb_item_to_model(good[i], FreshId, clock).val]

\* C12: list skips undecodable items. list_projects, the backend answering and
\* the cursor well-formed, returns every decodable, non-deleted record of the
\* queried page, in order, with the page's next cursor, whatever else the page
\* holds.
C12_ListSkipsUndecodable ==
    (last.op = "list_projects" /\ last.ok /\ last.token.kind # "bad")
        => \E page \in {query_items(table, UserPk(last.user), "PROJECT", last.limit,
                                    last.token, "ok", MaxPage).val} :
              /\ last.res.items = DecodableShown(page.items)
              /\ last.res.next_token = page.next_token

\* The items of the table outside an owner's partition "USER#<owner>"
OutsidePartition(tbl, owner) == {it \in tbl : it["pk"] # KeyStr("USER", owner)}
\* The records a service call returned
ReturnedRecords(call) ==
    CASE call.op \in {"get_project", "update_project"} ->
            IF call.res.some THEN {call.res.project} ELSE {}
      [] call.op = "list_projects" -> {call.res.items[i] : i \in 1..Len(call.res.items)}
      [] OTHER -> {}

\* C13: owner scoping. A get, list, update or delete call made with owner U
\* returns only records of items stored under U's partition, changes no item
\* outside that partition, and leaves what every other owner's get and list
\* show as it was, whatever id U supplies. (A step that leaves the table as it
\* was changes nothing another owner is shown.)
C13_Step ==
    last'.op \in {"get_project", "list_projects", "update_project", "delete_project"} =>
        /\ OutsidePartition(table', last'.user) = OutsidePartition(table, last'.user)
        /\ \A r \in ReturnedRecords(last') : r["pk"] = KeyStr("USER", last'.user)
        /\ \A o \in Owners \ {last'.user} :
              \/ table' = table
              \/ /\ \A i \in Ids : get_project(table', o, i, "ok", FreshId, clock')
                                      = get_project(table, o, i, "ok", FreshId, clock')
                 /\ list_projects(table', o, 0, NoToken, "ok", MaxPage + 1, FreshId, clock')
                       = list_projects(table, o, 0, NoToken, "ok", MaxPage + 1, FreshId, clock')
C13_OwnerScoping == [][C13_Step]_vars
\* owner u2 has asked for the id of a record stored under u1's partition,
\* while the table holds an item outside u1's partition
C13_ForeignIdAsked ==
    /\ last.op \in {"get_project", "update_project"} /\ last.user = "u2"
    /\ At(table, KeyStr("USER", "u1"), ProjectSk(last.id)) # {}
    /\ OutsidePartition(table, "u1") # {}

\* C14: timestamps equal at creation. Every record create_project returns has
\* updated_at equal to created_at, however the clock moves between the reads
\* that fill the two fields.
C14_TimestampsEqualAtCreation ==
    (last.op = "create_project" /\ last.res.some)
        => last.res.project["updated_at"] = last.res.project["created_at"]

\* C15: record invariant. A service call never changes the id stored under a
\* key, and every item it writes has updated_at >= created_at (the clock read
\* by utcnow() not running backwards).
C15_Step ==
    (last'.op \in ServiceOps /\ table' # table) =>
        /\ \A old \in table : \A new \in At(table', old["pk"], old["sk"]) :
              Has(old, "id") => (Has(new, "id") /\ new["id"] = old["id"])
        /\ \A new \in table' \ table :
              (Has(new, "created_at") /\ Has(new, "updated_at"))
                 => new["updated_at"][2] >= new["created_at"][2]
C15_RecordInvariant == [][C15_Step]_vars
\* a create has stored a record whose two timestamps differ
C15_CreatedLater ==
    /\ last.op = "create_project" /\ last.res.some
    /\ \E it \in StoredAt(table, last.user, last.id) :
          it["id"] = Str(last.id) /\ it["updated_at"][2] > it["created_at"][2]

\* The serialized shape of a record: .dict() without the fields it excludes
PublicShape(model, honoured) == Restrict(model, (DOMAIN model) \ ExcludedFields(honoured))

C17_Step ==
    (last'.op = "delete_item" /\ last'.be = "ok") =>
        /\ last'.res /\ ~last'.raised
        /\ At(table', last'.pk, last'.sk) = {}
        /\ {it \in table' : <<it["pk"], it["sk"]>> # <<last'.pk, last'.sk>>}
              = {it \in table : <<it["pk"], it["sk"]>> # <<last'.pk, last'.sk>>}
        /\ last'.again => table' = table
C17_IdempotentDelete == [][C17_Step]_vars
\* the same key has been deleted twice in a row, other items being stored
C17_DeletedTwice ==
    last.op = "delete_item" /\ last.be = "ok" /\ last.again /\ ~last.existed /\ table # {}

\* C18: the key cache is never invalidated. The key set is not fetched before
\* the first verify_token call, that call fetches it, and no later
\* verify_token call calls the identity provider again or changes the cached
\* key set.
C18_Step ==
    /\ ~attempted => publicKeys = NoCache
    /\ (~attempted /\ attempted') => (last'.fetched /\ publicKeys'.set)
    /\ (attempted /\ last'.op \in {"verify_token", "lambda_authorizer"})
          => (~last'.fetched /\ publicKeys' = publicKeys)
C18_CacheNeverRefetched == [][C18_Step]_vars

\* What a call that fetched would have returned running alone on the empty cache
AloneClaims(call) == verify_token(call.token, NoCache, call.fetch, idpKeys).claims

\* C19: harmless cache race. When two verify_token calls have interleaved
\* inside get_public_keys on an empty cache and both are done: the cache holds
\* the key set of a completed fetch if there was one, no call got None or a
\* partly built map from get_public_keys, and each call that fetched returned
\* what it would have returned running alone.
C19_HarmlessRace ==
    (\A t \in Threads : th[t].pc = "done") =>
        /\ (\E t \in Threads : th[t].fetch = "keys") => publicKeys = Cached(idpKeys)
        /\ \A t \in Threads :
              /\ th[t].fetch \in {"keys", "client_error"} => th[t].seen.set
              /\ th[t].fetch # "none" => th[t].claims = AloneClaims(th[t])

\* The keys that hold an item
KeysOf(tbl) == {<<it["pk"], it["sk"]>> : it \in tbl}

\* C20: soft delete never creates an item. delete_project(owner, id) leaves
\* the set of stored keys as it was, for a key that holds no item in
\* particular, and so does every service call other than create_project.
C20_Step ==
    last'.op \in ServiceOps \ {"create_project"} => KeysOf(table') = KeysOf(table)
C20_SoftDeleteCreatesNothing == [][C20_Step]_vars
\* a soft delete, the backend answering, has run for a key that holds no item
\* in a partition that holds others
C20_DeleteOfAbsentKey ==
    /\ last.op = "delete_project" /\ last.ok /\ ~last.res
    /\ StoredAt(table, last.user, last.id) = {}
    /\ \E it \in table : it["pk"] = KeyStr("USER", last.user)

\* ------------------------------------------------------------ C21
\* C21: no lost update on disjoint fields. When two update_project calls on the
\* same record, one patching only field A and the other only field B, have run
\* their reads and writes in any interleaving, each having found the record and
\* had its update answered, both return a record and the stored item holds the
\* new value of A and the new value of B.
C21_NoLostUpdate ==
    LET served ==
            /\ \A t \in Threads :
                  updating[t].pc = "done" /\ updating[t].found /\ updating[t].okUpd
            /\ updating["a"].user = updating["b"].user
            /\ updating["a"].id = updating["b"].id
        storesPatchOf(t) ==
            \E item \in StoredAt(table, updating[t].user, updating[t].id) :
                \A f \in DOMAIN updating[t].patch :
                    Has(item, f) /\ item[f] = updating[t].patch[f]
    IN served =>
          /\ \A t \in Threads : updating[t].res.some
          /\ \A t \in Threads : storesPatchOf(t)

====
